---- MODULE Spec2Model ----
(***************************************************************************)
(* SkillSwapper backend: the relational tables (users, skills,             *)
(* user_skills_have, user_skills_want, matches, notifications), the        *)
(* Matcher (Match.findMatches and GET /api/matches, GET                    *)
(* /api/matches/detailed/:userId) and the connection workflow (POST        *)
(* /api/matches/save, /accept, /decline, and the controller                *)
(* updateMatchStatus), the skills routes (registration with skill lists,   *)
(* add-to-have, add-to-want, update-proficiency, update-urgency, remove)   *)
(* and the notification inbox (list, unread count, mark read, delete).     *)
(*                                                                         *)
(* Strings that the code parses or compares (skill names) are sequences of *)
(* one-character strings, so that GROUP_CONCAT / split(',') and            *)
(* toLowerCase() act on characters.  User names are compared only by       *)
(* ORDER BY u.name, and are modelled by their rank in collation order.     *)
(***************************************************************************)
EXTENDS Integers, Sequences, FiniteSets, TLC

\* ------------------------------------------------------------------ bounds
MaxUsers == 2
MaxNotifications == 2
MaxRows == 5
MaxTime == 1
MaxInbox == 3
MaxRequests == 2

\* ------------------------------------------------------- program constants
FindMatchesLimit == 20
DefaultLimit == 10

VARIABLES users, skills, user_skills_have, user_skills_want,
          matches, notifications, emails, res, CURRENT_TIMESTAMP, requests

vars == <<users, skills, user_skills_have, user_skills_want,
          matches, notifications, emails, res, CURRENT_TIMESTAMP, requests>>

\* The persisted state (the six tables of the schema).
db == <<users, skills, user_skills_have, user_skills_want, matches, notifications>>

UserIds == DOMAIN users
SkillIds == DOMAIN skills

\* ------------------------------------------------------------ input sets
UserNames == {1}
SkillNameInputs == { <<"g">>, <<"c", ",", "d">> }

\* ----------------------------------------------------------- string helpers
LowerChar(c) ==
    CASE c = "G" -> "g"
      [] c = "C" -> "c"
      [] c = "D" -> "d"
      [] c = "P" -> "p"
      [] OTHER -> c

\* String.prototype.toLowerCase / SQL LOWER()
toLowerCase(str) == [i \in 1..Len(str) |-> LowerChar(str[i])]

RECURSIVE trimStart(_)
trimStart(str) ==
    IF str # <<>> /\ Head(str) = " " THEN trimStart(Tail(str)) ELSE str

RECURSIVE trimEnd(_)
trimEnd(str) ==
    IF str # <<>> /\ str[Len(str)] = " "
    THEN trimEnd(SubSeq(str, 1, Len(str) - 1))
    ELSE str

\* String.prototype.trim
trim(str) == trimEnd(trimStart(str))

\* String.prototype.split(',') : the pieces between the commas, in order.
RECURSIVE splitFrom(_, _)
splitFrom(str, cur) ==
    IF str = <<>> THEN <<cur>>
    ELSE IF Head(str) = "," THEN <<cur>> \o splitFrom(Tail(str), <<>>)
    ELSE splitFrom(Tail(str), Append(cur, Head(str)))

split(str) == splitFrom(str, <<>>)

\* Array.prototype.join(',') as GROUP_CONCAT does it with its default separator.
RECURSIVE joinComma(_)
joinComma(names) ==
    IF names = <<>> THEN <<>>
    ELSE IF Len(names) = 1 THEN names[1]
    ELSE names[1] \o <<",">> \o joinComma(Tail(names))

\* Equality of two skill names under the column's case-insensitive collation.
CollEq(a, b) == toLowerCase(a) = toLowerCase(b)

\* ------------------------------------------------------------ set helpers
RECURSIVE SetToSeqAsc(_)
SetToSeqAsc(S) ==
    IF S = {} THEN <<>>
    ELSE LET m == CHOOSE x \in S : \A y \in S : x <= y
         IN <<m>> \o SetToSeqAsc(S \ {m})

Reverse(s) == [i \in 1..Len(s) |-> s[Len(s) + 1 - i]]

Take(s, n) == SubSeq(s, 1, IF n < Len(s) THEN n ELSE Len(s))

\* Array.prototype.slice(from, to)
slice(s, from, to) ==
    LET hi == IF to < Len(s) THEN to ELSE Len(s)
    IN IF from >= hi THEN <<>> ELSE SubSeq(s, from + 1, hi)

Range(s) == {s[i] : i \in DOMAIN s}

\* Orders in which the engine may list the rows with ids S: by ascending and by
\* descending id.
EngineOrders(S) == {SetToSeqAsc(S), Reverse(SetToSeqAsc(S))}

Min(a, b) == IF a < b THEN a ELSE b

\* ------------------------------------------------------------- Skill model
\* Skill.findOrCreate on table tbl: the skill row returned and the table after.
\* err is TRUE when the INSERT violates the UNIQUE key of skill_name.
Skill_findOrCreate(tbl, skillName) ==
    LET normalizedName == toLowerCase(trim(skillName))
        found == {i \in DOMAIN tbl : toLowerCase(tbl[i]) = normalizedName}
    IN IF found # {}
       THEN [err |-> FALSE, id |-> CHOOSE i \in found : \A j \in found : i <= j, tbl |-> tbl]
       ELSE IF \E i \in DOMAIN tbl : CollEq(tbl[i], skillName)
       THEN [err |-> TRUE, id |-> 0, tbl |-> tbl]
       ELSE [err |-> FALSE, id |-> Len(tbl) + 1, tbl |-> Append(tbl, skillName)]

\* Skill.addToUserHave as a plain INSERT into a table without the UNIQUE key.
Skill_addToUserHave_insertOnly(rows, userId, skillId, proficiencyLevel) ==
    rows \cup {[user_id |-> userId, skill_id |-> skillId, proficiency_level |-> proficiencyLevel]}

\* Skill.addToUserHave: INSERT ... ON DUPLICATE KEY UPDATE proficiency_level.
Skill_addToUserHave(rows, userId, skillId, proficiencyLevel) ==
    {r \in rows : ~(r.user_id = userId /\ r.skill_id = skillId)}
        \cup {[user_id |-> userId, skill_id |-> skillId, proficiency_level |-> proficiencyLevel]}

\* Skill.addToUserWant: INSERT ... ON DUPLICATE KEY UPDATE urgency_level.
Skill_addToUserWant(rows, userId, skillId, urgencyLevel) ==
    {r \in rows : ~(r.user_id = userId /\ r.skill_id = skillId)}
        \cup {[user_id |-> userId, skill_id |-> skillId, urgency_level |-> urgencyLevel]}

\* Skill.removeFromUserHave / removeFromUserWant: DELETE ... WHERE user_id AND skill_id.
Skill_removeFromUser(rows, userId, skillId) ==
    {r \in rows : ~(r.user_id = userId /\ r.skill_id = skillId)}

\* User.getWithSkills: the rows of the two skill lists joined with skills.
skills_have(u) ==
    LET ids == {r.skill_id : r \in {x \in user_skills_have : x.user_id = u}} \cap SkillIds
        asc == SetToSeqAsc(ids)
    IN [i \in 1..Cardinality(ids) |-> [id |-> asc[i], skill_name |-> skills[asc[i]]]]

skills_want(u) ==
    LET ids == {r.skill_id : r \in {x \in user_skills_want : x.user_id = u}} \cap SkillIds
        asc == SetToSeqAsc(ids)
    IN [i \in 1..Cardinality(ids) |-> [id |-> asc[i], skill_name |-> skills[asc[i]]]]

\* Array.prototype.map(s => s.skill_name.toLowerCase())
lowerNames(list) == [i \in DOMAIN list |-> toLowerCase(list[i].skill_name)]

\* list.filter(skill => names.includes(skill.skill_name.toLowerCase()))
filterIncluded(list, names) ==
    SelectSeq(list, LAMBDA skill : toLowerCase(skill.skill_name) \in Range(names))

\* Array.prototype.map(s => s.skill_name)
skillNames(list) == [i \in DOMAIN list |-> list[i].skill_name]

\* ------------------------------------------------------------ user actions
\* POST /api/auth/register without skill lists: User.create.
Register(name) ==
    /\ users' = Append(users, name)
    /\ res' = [op |-> "register", status |-> 201, id |-> Len(users) + 1]
    /\ UNCHANGED <<skills, user_skills_have, user_skills_want, matches, notifications, emails, CURRENT_TIMESTAMP, requests>>

\* POST /api/skills/add-to-have with body.skills = [{name, level}].
AddToHave(userId, name, level) ==
    LET skill == Skill_findOrCreate(skills, trim(name))
    IN /\ userId \in UserIds
       /\ IF skill.err
          THEN /\ res' = [op |-> "addToHave", status |-> 500]
               /\ UNCHANGED <<skills, user_skills_have>>
          ELSE /\ skills' = skill.tbl
               /\ user_skills_have' = Skill_addToUserHave(user_skills_have, userId, skill.id, level)
               /\ res' = [op |-> "addToHave", status |-> 200, caller |-> userId,
                          addedSkills |-> <<[id |-> skill.id,
                                             skill_name |-> skills'[skill.id],
                                             proficiency_level |-> level]>>]
       /\ UNCHANGED <<users, user_skills_want, matches, notifications, emails, CURRENT_TIMESTAMP, requests>>

\* POST /api/skills/add-to-want with body.skills = [{name, urgency}].
AddToWant(userId, name, urgency) ==
    LET skill == Skill_findOrCreate(skills, trim(name))
    IN /\ userId \in UserIds
       /\ IF skill.err
          THEN /\ res' = [op |-> "addToWant", status |-> 500]
               /\ UNCHANGED <<skills, user_skills_want>>
          ELSE /\ skills' = skill.tbl
               /\ user_skills_want' = Skill_addToUserWant(user_skills_want, userId, skill.id, urgency)
               /\ res' = [op |-> "addToWant", status |-> 200, caller |-> userId,
                          addedSkills |-> <<[id |-> skill.id,
                                             skill_name |-> skills'[skill.id],
                                             urgency_level |-> urgency]>>]
       /\ UNCHANGED <<users, user_skills_have, matches, notifications, emails, CURRENT_TIMESTAMP, requests>>

\* DELETE /api/skills/remove-from-have/:skillId
RemoveFromHave(userId, skillId) ==
    /\ userId \in UserIds
    /\ IF skillId < 1
       THEN /\ res' = [op |-> "removeFromHave", status |-> 400]
            /\ UNCHANGED user_skills_have
       ELSE /\ user_skills_have' = Skill_removeFromUser(user_skills_have, userId, skillId)
            /\ res' = [op |-> "removeFromHave", status |-> 200]
    /\ UNCHANGED <<users, skills, user_skills_want, matches, notifications, emails, CURRENT_TIMESTAMP, requests>>

\* DELETE /api/skills/remove-from-want/:skillId
RemoveFromWant(userId, skillId) ==
    /\ userId \in UserIds
    /\ IF skillId < 1
       THEN /\ res' = [op |-> "removeFromWant", status |-> 400]
            /\ UNCHANGED user_skills_want
       ELSE /\ user_skills_want' = Skill_removeFromUser(user_skills_want, userId, skillId)
            /\ res' = [op |-> "removeFromWant", status |-> 200]
    /\ UNCHANGED <<users, skills, user_skills_have, matches, notifications, emails, CURRENT_TIMESTAMP, requests>>

\* POST /api/auth/register with body.skills_have and body.skills_want.  The
\* user row is inserted; with a skill list that is not empty the first skill
\* goes through Skill.findOrCreate and the call that follows it reads
\* newUserId, a name the handler never declares, so the handler ends in its
\* catch block with 500.
RegisterWithSkills(name, skills_have_in, skills_want_in) ==
    LET given == skills_have_in \o skills_want_in
    IN /\ users' = Append(users, name)
       /\ IF given = <<>>
          THEN /\ res' = [op |-> "register", status |-> 201, id |-> Len(users) + 1]
               /\ UNCHANGED skills
          ELSE /\ skills' = Skill_findOrCreate(skills, given[1]).tbl
               /\ res' = [op |-> "register", status |-> 500]
       /\ UNCHANGED <<user_skills_have, user_skills_want, matches, notifications,
                      emails, CURRENT_TIMESTAMP, requests>>

\* A foreign key of user_skills_have / user_skills_want names no row.
foreignKeyFails(userId, skillId) == userId \notin UserIds \/ skillId \notin SkillIds

\* PUT /api/skills/update-proficiency with body {skillId, proficiencyLevel};
\* 0 and "" stand for an absent field.
UpdateProficiency(userId, skillId, proficiencyLevel) ==
    /\ userId \in UserIds
    /\ IF skillId = 0 \/ proficiencyLevel = ""
       THEN /\ res' = [op |-> "updateProficiency", status |-> 400]
            /\ UNCHANGED user_skills_have
       ELSE IF proficiencyLevel \notin {"beginner", "intermediate", "advanced", "expert"}
       THEN /\ res' = [op |-> "updateProficiency", status |-> 400]
            /\ UNCHANGED user_skills_have
       ELSE IF foreignKeyFails(userId, skillId)
       THEN /\ res' = [op |-> "updateProficiency", status |-> 500]
            /\ UNCHANGED user_skills_have
       ELSE /\ user_skills_have' = Skill_addToUserHave(user_skills_have, userId, skillId,
                                                       proficiencyLevel)
            /\ res' = [op |-> "updateProficiency", status |-> 200]
    /\ UNCHANGED <<users, skills, user_skills_want, matches, notifications, emails,
                   CURRENT_TIMESTAMP, requests>>

\* PUT /api/skills/update-urgency with body {skillId, urgencyLevel}.
UpdateUrgency(userId, skillId, urgencyLevel) ==
    /\ userId \in UserIds
    /\ IF skillId = 0 \/ urgencyLevel = ""
       THEN /\ res' = [op |-> "updateUrgency", status |-> 400]
            /\ UNCHANGED user_skills_want
       ELSE IF urgencyLevel \notin {"low", "medium", "high"}
       THEN /\ res' = [op |-> "updateUrgency", status |-> 400]
            /\ UNCHANGED user_skills_want
       ELSE IF foreignKeyFails(userId, skillId)
       THEN /\ res' = [op |-> "updateUrgency", status |-> 500]
            /\ UNCHANGED user_skills_want
       ELSE /\ user_skills_want' = Skill_addToUserWant(user_skills_want, userId, skillId,
                                                       urgencyLevel)
            /\ res' = [op |-> "updateUrgency", status |-> 200]
    /\ UNCHANGED <<users, skills, user_skills_have, matches, notifications, emails,
                   CURRENT_TIMESTAMP, requests>>

\* ----------------------------------------------------------------- Matcher
\* GROUP_CONCAT(DISTINCT s.skill_name) over the skills ids. SQL leaves the order
\* of the concatenated names open; concatOrder is the order the engine takes.
GROUP_CONCAT(ids, concatOrder) ==
    LET asc == SetToSeqAsc(ids)
        ord == IF concatOrder = "asc" THEN asc ELSE Reverse(asc)
    IN joinComma([i \in DOMAIN ord |-> skills[ord[i]]])

\* ORDER BY key DESC of the grouped rows: rows with equal keys stay in the order
\* in which the engine produced them.
RECURSIVE orderByKeyDesc(_)
orderByKeyDesc(rows) ==
    IF rows = <<>> THEN <<>>
    ELSE LET front == orderByKeyDesc(SubSeq(rows, 1, Len(rows) - 1))
             x == rows[Len(rows)]
             n == Cardinality({i \in DOMAIN front : front[i].order_key >= x.order_key})
         IN SubSeq(front, 1, n) \o <<x>> \o SubSeq(front, n + 1, Len(front))

\* The skills the join of Match.findMatches pairs for user u and requester userId:
\* usw (u wants) JOIN ush_current (requester has) on skill_id.
common_have(userId, u) ==
    {w.skill_id : w \in {x \in user_skills_want : x.user_id = u}}
        \cap {h.skill_id : h \in {x \in user_skills_have : x.user_id = userId}}
        \cap SkillIds

\* The join without "AND usw_current.user_id = ?": any user's want row matches.
common_want_anyUser(userId, u) ==
    {h.skill_id : h \in {x \in user_skills_have : x.user_id = u}}
        \cap {w.skill_id : w \in user_skills_want}
        \cap SkillIds

\* ush (u has) JOIN usw_current (requester wants) on skill_id.
common_want(userId, u) ==
    {h.skill_id : h \in {x \in user_skills_have : x.user_id = u}}
        \cap {w.skill_id : w \in {x \in user_skills_want : x.user_id = userId}}
        \cap SkillIds

\* The query without "WHERE u.id != ?".
Match_findMatches_withSelf(userId, engineOrder, concatOrder) ==
    LET grouped == SelectSeq(engineOrder,
                     LAMBDA u : /\ common_have(userId, u) # {}
                                /\ common_want(userId, u) # {})
        rows == [i \in DOMAIN grouped |->
                   [id |-> grouped[i],
                    name |-> users[grouped[i]],
                    matching_skills_i_have |-> GROUP_CONCAT(common_have(userId, grouped[i]), concatOrder),
                    matching_skills_i_want |-> GROUP_CONCAT(common_want(userId, grouped[i]), concatOrder),
                    order_key |-> Cardinality(common_have(userId, grouped[i]))
                                    + Cardinality(common_want(userId, grouped[i]))]]
    IN Take(orderByKeyDesc(rows), FindMatchesLimit)

\* Match.findMatches(userId). engineOrder is the order in which the engine
\* produces the groups (SQL fixes the order of equal ORDER BY keys nowhere).
Match_findMatches(userId, engineOrder, concatOrder) ==
    LET grouped == SelectSeq(engineOrder,
                     LAMBDA u : /\ u # userId
                                /\ common_have(userId, u) # {}
                                /\ common_want(userId, u) # {})
        rows == [i \in DOMAIN grouped |->
                   [id |-> grouped[i],
                    name |-> users[grouped[i]],
                    matching_skills_i_have |-> GROUP_CONCAT(common_have(userId, grouped[i]), concatOrder),
                    matching_skills_i_want |-> GROUP_CONCAT(common_want(userId, grouped[i]), concatOrder),
                    order_key |-> Cardinality(common_have(userId, grouped[i]))
                                    + Cardinality(common_want(userId, grouped[i]))]]
    IN Take(orderByKeyDesc(rows), FindMatchesLimit)

\* processedMatches.sort((a, b) => b.matchScore - a.matchScore): a stable sort.
RECURSIVE sortByMatchScoreDesc(_)
sortByMatchScoreDesc(ms) ==
    IF ms = <<>> THEN <<>>
    ELSE LET front == sortByMatchScoreDesc(SubSeq(ms, 1, Len(ms) - 1))
             x == ms[Len(ms)]
             n == Cardinality({i \in DOMAIN front : front[i].matchScore >= x.matchScore})
         IN SubSeq(front, 1, n) \o <<x>> \o SubSeq(front, n + 1, Len(front))

\* GET /api/matches: the processed and sorted list, before pagination.
processedMatches(userId, engineOrder, concatOrder) ==
    LET found == Match_findMatches(userId, engineOrder, concatOrder)
        proc(match) ==
            LET skillsIHave == IF match.matching_skills_i_have # <<>>
                               THEN split(match.matching_skills_i_have) ELSE <<>>
                skillsIWant == IF match.matching_skills_i_want # <<>>
                               THEN split(match.matching_skills_i_want) ELSE <<>>
            IN [id |-> match.id,
                name |-> match.name,
                skillsYouCanTeachThem |-> skillsIHave,
                skillsTheyCanTeachYou |-> skillsIWant,
                matchScore |-> Len(skillsIHave) + Len(skillsIWant),
                mutualSkillsCount |-> Min(Len(skillsIHave), Len(skillsIWant))]
    IN sortByMatchScoreDesc([i \in DOMAIN found |-> proc(found[i])])

\* The handler storing what it found as a connection row of the first candidate.
GetMatches_saving(userId, engineOrder, concatOrder, limit, offset) ==
    LET all == processedMatches(userId, engineOrder, concatOrder)
    IN /\ userId \in UserIds
       /\ res' = [op |-> "getMatches", status |-> 200, user |-> userId,
                  matches |-> slice(all, offset, offset + limit),
                  total |-> Len(all),
                  hasMore |-> offset + limit < Len(all)]
       /\ matches' = IF all = <<>> THEN matches
                     ELSE matches \cup {[id |-> Cardinality(matches) + 1,
                                          user1_id |-> userId, user2_id |-> all[1].id,
                                          matched_skills |-> <<>>, status |-> "pending",
                                          updated_at |-> CURRENT_TIMESTAMP]}
       /\ UNCHANGED <<users, skills, user_skills_have, user_skills_want,
                      notifications, emails, CURRENT_TIMESTAMP, requests>>

\* GET /api/matches?limit&offset
GetMatches(userId, engineOrder, concatOrder, limit, offset) ==
    LET all == processedMatches(userId, engineOrder, concatOrder)
    IN /\ userId \in UserIds
       /\ res' = [op |-> "getMatches", status |-> 200, user |-> userId,
                  matches |-> slice(all, offset, offset + limit),
                  total |-> Len(all),
                  hasMore |-> offset + limit < Len(all)]
       /\ UNCHANGED <<users, skills, user_skills_have, user_skills_want,
                      matches, notifications, emails, CURRENT_TIMESTAMP, requests>>

\* GET /api/matches/detailed/:userId
GetDetailedMatch(currentUserId, targetUserId) ==
    /\ currentUserId \in UserIds
    /\ IF currentUserId = targetUserId
       THEN res' = [op |-> "getDetailedMatch", status |-> 400]
       ELSE IF targetUserId \notin UserIds
       THEN res' = [op |-> "getDetailedMatch", status |-> 404]
       ELSE LET currentUserWantSkills == lowerNames(skills_want(currentUserId))
                targetUserWantSkills == lowerNames(skills_want(targetUserId))
                skillsYouCanTeachThem ==
                    filterIncluded(skills_have(currentUserId), targetUserWantSkills)
                skillsTheyCanTeachYou ==
                    filterIncluded(skills_have(targetUserId), currentUserWantSkills)
            IN res' = [op |-> "getDetailedMatch", status |-> 200,
                       user |-> currentUserId, target |-> targetUserId,
                       isValidMatch |-> Len(skillsYouCanTeachThem) > 0
                                          /\ Len(skillsTheyCanTeachYou) > 0,
                       matchScore |-> Len(skillsYouCanTeachThem) + Len(skillsTheyCanTeachYou),
                       skillsYouCanTeachThem |-> skillsYouCanTeachThem,
                       skillsTheyCanTeachYou |-> skillsTheyCanTeachYou]
    /\ UNCHANGED <<users, skills, user_skills_have, user_skills_want,
                   matches, notifications, emails, CURRENT_TIMESTAMP, requests>>

\* ----------------------------------------------------- connection workflow
\* The matched-skills snapshot POST /api/matches/save computes for the pair.
matchedSkills(user1Id, user2Id) ==
    LET currentUserWantSkills == lowerNames(skills_want(user1Id))
        targetUserWantSkills == lowerNames(skills_want(user2Id))
        skillsYouCanTeachThem == filterIncluded(skills_have(user1Id), targetUserWantSkills)
        skillsTheyCanTeachYou == filterIncluded(skills_have(user2Id), currentUserWantSkills)
    IN [skillsYouCanTeachThem |-> skillNames(skillsYouCanTeachThem),
        skillsTheyCanTeachYou |-> skillNames(skillsTheyCanTeachYou),
        matchScore |-> Len(skillsYouCanTeachThem) + Len(skillsTheyCanTeachYou)]

\* ON DUPLICATE KEY UPDATE that also writes status = VALUES(status).
Match_create_resetStatus(rows, user1Id, user2Id, snapshot) ==
    IF \E r \in rows : r.user1_id = user1Id /\ r.user2_id = user2Id
    THEN {IF r.user1_id = user1Id /\ r.user2_id = user2Id
          THEN [r EXCEPT !.matched_skills = snapshot, !.status = "pending",
                         !.updated_at = CURRENT_TIMESTAMP]
          ELSE r : r \in rows}
    ELSE rows \cup {[id |-> Cardinality(rows) + 1, user1_id |-> user1Id,
                     user2_id |-> user2Id, matched_skills |-> snapshot,
                     status |-> "pending", updated_at |-> CURRENT_TIMESTAMP]}

\* Match.create: INSERT ... VALUES (?, ?, ?, 'pending') ON DUPLICATE KEY UPDATE
\* matched_skills, updated_at; the key is UNIQUE (user1_id, user2_id).
Match_create(rows, user1Id, user2Id, snapshot) ==
    IF \E r \in rows : r.user1_id = user1Id /\ r.user2_id = user2Id
    THEN {IF r.user1_id = user1Id /\ r.user2_id = user2Id
          THEN [r EXCEPT !.matched_skills = snapshot, !.updated_at = CURRENT_TIMESTAMP]
          ELSE r : r \in rows}
    ELSE rows \cup {[id |-> Cardinality(rows) + 1, user1_id |-> user1Id,
                     user2_id |-> user2Id, matched_skills |-> snapshot,
                     status |-> "pending", updated_at |-> CURRENT_TIMESTAMP]}

\* The rows of the pair, in either direction.
pairRows(rows, userAId, userBId) ==
    {r \in rows : \/ (r.user1_id = userAId /\ r.user2_id = userBId)
                  \/ (r.user1_id = userBId /\ r.user2_id = userAId)}

\* The UPDATE without "status = 'pending'" in its WHERE.
Match_accept_anyStatus(rows, userAId, userBId) ==
    LET hit == pairRows(rows, userAId, userBId)
    IN [ok |-> hit # {},
        rows |-> {IF r \in hit
                  THEN [r EXCEPT !.status = "accepted", !.updated_at = CURRENT_TIMESTAMP]
                  ELSE r : r \in rows}]

\* Match.accept that reports ok when the pair has a row, whether or not the
\* UPDATE changed one.
Match_accept_okIfPairExists(rows, userAId, userBId) ==
    LET hit == {r \in pairRows(rows, userAId, userBId) : r.status = "pending"}
    IN [ok |-> pairRows(rows, userAId, userBId) # {},
        rows |-> {IF r \in hit
                  THEN [r EXCEPT !.status = "accepted", !.updated_at = CURRENT_TIMESTAMP]
                  ELSE r : r \in rows}]

\* Match.accept: UPDATE matches SET status = 'accepted', updated_at WHERE
\* status = 'pending' AND the pair in either direction; ok is affectedRows > 0.
Match_accept(rows, userAId, userBId) ==
    LET hit == {r \in pairRows(rows, userAId, userBId) : r.status = "pending"}
    IN [ok |-> hit # {},
        rows |-> {IF r \in hit
                  THEN [r EXCEPT !.status = "accepted", !.updated_at = CURRENT_TIMESTAMP]
                  ELSE r : r \in rows}]

\* The declining UPDATE without "status = 'pending'" in its WHERE.
Match_decline_anyStatus(rows, userAId, userBId) ==
    LET hit == pairRows(rows, userAId, userBId)
    IN [ok |-> hit # {},
        rows |-> {IF r \in hit
                  THEN [r EXCEPT !.status = "declined", !.updated_at = CURRENT_TIMESTAMP]
                  ELSE r : r \in rows}]

\* Match.decline: UPDATE matches SET status = 'declined', updated_at WHERE
\* status = 'pending' AND the pair in either direction.
Match_decline(rows, userAId, userBId) ==
    LET hit == {r \in pairRows(rows, userAId, userBId) : r.status = "pending"}
    IN [ok |-> hit # {},
        rows |-> {IF r \in hit
                  THEN [r EXCEPT !.status = "declined", !.updated_at = CURRENT_TIMESTAMP]
                  ELSE r : r \in rows}]

\* The notifications table is the sequence of every row inserted, in the order
\* of the AUTO_INCREMENT ids; a deleted row leaves the slot of its id behind,
\* addressed to no user, so that no id is given out twice.
deletedRow(id) ==
    [id |-> id, user_id |-> 0, from_user_id |-> 0, type |-> "deleted",
     is_read |-> TRUE, created_at |-> 0, read_at |-> <<>>]

\* Notification.create that stores every notification as connection_accepted.
Notification_create_asAccepted(tbl, user_id, from_user_id, type) ==
    Append(tbl, [id |-> Len(tbl) + 1, user_id |-> user_id,
                 from_user_id |-> from_user_id, type |-> "connection_accepted",
                 is_read |-> FALSE, created_at |-> CURRENT_TIMESTAMP, read_at |-> <<>>])

\* Notification.create: the table with the new row appended; is_read and
\* created_at take their column defaults, read_at is NULL (the empty sequence).
Notification_create(tbl, user_id, from_user_id, type) ==
    Append(tbl, [id |-> Len(tbl) + 1, user_id |-> user_id,
                 from_user_id |-> from_user_id, type |-> type, is_read |-> FALSE,
                 created_at |-> CURRENT_TIMESTAMP, read_at |-> <<>>])

Max(a, b) == IF a > b THEN a ELSE b

\* Notification.getByUserId with ascending created_at.
Notification_getByUserId_oldestFirst(tbl, userId, limit, offset, unreadOnly, engineOrder) ==
    LET ids == {i \in DOMAIN tbl : /\ tbl[i].user_id = userId
                                   /\ unreadOnly => ~tbl[i].is_read}
        produced == SelectSeq(engineOrder, LAMBDA i : i \in ids)
        keyed == [k \in DOMAIN produced |->
                    [row |-> tbl[produced[k]], order_key |-> 0 - tbl[produced[k]].created_at]]
        sorted == orderByKeyDesc(keyed)
    IN slice([k \in DOMAIN sorted |-> sorted[k].row], offset, offset + limit)

\* Notification.getByUserId: SELECT ... WHERE n.user_id = ? [AND n.is_read =
\* FALSE] ORDER BY n.created_at DESC LIMIT ? OFFSET ?.  engineOrder is the order
\* in which the engine produces the rows; rows of one created_at keep it.
Notification_getByUserId(tbl, userId, limit, offset, unreadOnly, engineOrder) ==
    LET ids == {i \in DOMAIN tbl : /\ tbl[i].user_id = userId
                                   /\ unreadOnly => ~tbl[i].is_read}
        produced == SelectSeq(engineOrder, LAMBDA i : i \in ids)
        keyed == [k \in DOMAIN produced |->
                    [row |-> tbl[produced[k]], order_key |-> tbl[produced[k]].created_at]]
        sorted == orderByKeyDesc(keyed)
    IN slice([k \in DOMAIN sorted |-> sorted[k].row], offset, offset + limit)

\* Notification.getUnreadCount: SELECT COUNT(*) WHERE user_id = ? AND is_read = FALSE.
Notification_getUnreadCount(tbl, userId) ==
    Cardinality({i \in DOMAIN tbl : tbl[i].user_id = userId /\ ~tbl[i].is_read})

\* The UPDATE of Notification.markAsRead without "AND user_id = ?".
Notification_markAsRead_anyUser(tbl, notificationId, userId) ==
    [i \in DOMAIN tbl |->
        IF tbl[i].id = notificationId /\ tbl[i].user_id # 0
        THEN [tbl[i] EXCEPT !.is_read = TRUE, !.read_at = <<CURRENT_TIMESTAMP>>]
        ELSE tbl[i]]

\* Notification.markAsRead: UPDATE notifications SET is_read = TRUE, read_at =
\* CURRENT_TIMESTAMP WHERE id = ? AND user_id = ?.
Notification_markAsRead(tbl, notificationId, userId) ==
    [i \in DOMAIN tbl |->
        IF tbl[i].id = notificationId /\ tbl[i].user_id = userId
        THEN [tbl[i] EXCEPT !.is_read = TRUE, !.read_at = <<CURRENT_TIMESTAMP>>]
        ELSE tbl[i]]

\* The UPDATE of Notification.markAllAsRead without "user_id = ?".
Notification_markAllAsRead_everyUser(tbl, userId) ==
    [i \in DOMAIN tbl |->
        IF tbl[i].user_id # 0 /\ ~tbl[i].is_read
        THEN [tbl[i] EXCEPT !.is_read = TRUE, !.read_at = <<CURRENT_TIMESTAMP>>]
        ELSE tbl[i]]

\* Notification.markAllAsRead: UPDATE ... WHERE user_id = ? AND is_read = FALSE.
Notification_markAllAsRead(tbl, userId) ==
    [i \in DOMAIN tbl |->
        IF tbl[i].user_id = userId /\ ~tbl[i].is_read
        THEN [tbl[i] EXCEPT !.is_read = TRUE, !.read_at = <<CURRENT_TIMESTAMP>>]
        ELSE tbl[i]]

\* Notification.delete: DELETE FROM notifications WHERE id = ? AND user_id = ?.
Notification_delete(tbl, notificationId, userId) ==
    [i \in DOMAIN tbl |->
        IF tbl[i].id = notificationId /\ tbl[i].user_id = userId
        THEN deletedRow(tbl[i].id)
        ELSE tbl[i]]

\* The side effects of a handler that can fail: the notification INSERT, the
\* reads that prepare the two mails, and each of the two sendMail calls.
Faults == {"notification", "emailLookup", "emailToRequester", "emailToAccepter"}

\* try { await Notification.create(...) } catch (e) { console.error(...) }:
\* a failed INSERT leaves the table as it was.
tryNotification(tbl, user_id, from_user_id, type, faults) ==
    IF "notification" \in faults
    THEN tbl
    ELSE Notification_create(tbl, user_id, from_user_id, type)

\* EmailService.sendConnectionAcceptedToRequester: one sendMail to the
\* requester; an error is caught and reported in the returned value.
sendConnectionAcceptedToRequester(requester, faults) ==
    [template |-> "ConnectionAcceptedToRequester", to |-> requester,
     success |-> "emailToRequester" \notin faults]

\* EmailService.sendConnectionAcceptedToAccepter: one sendMail to the accepter.
sendConnectionAcceptedToAccepter(accepter, faults) ==
    [template |-> "ConnectionAcceptedToAccepter", to |-> accepter,
     success |-> "emailToAccepter" \notin faults]

\* The try block of POST /api/matches/accept that dispatches the two mails: the
\* other user is taken as the requester, the caller as the accepter; a failure
\* of the reads before Promise.all skips both sends.
acceptanceEmails(currentUserId, otherUserId, faults) ==
    IF "emailLookup" \in faults
    THEN <<>>
    ELSE << sendConnectionAcceptedToRequester(otherUserId, faults),
            sendConnectionAcceptedToAccepter(currentUserId, faults) >>

\* ------------------------------------------------- values of a request body
\* A JSON body field holds a positive integer (a user id), 0 (absent or 0,
\* both falsy) or JsonTrue (the literal true).
JsonTrue == -2

\* The result of parseInt on a value with no leading digits.
NaN == -1

\* parseInt(v): an integer is itself, true is read as the string "true".
parseInt(v) == IF v = JsonTrue THEN NaN ELSE v

\* The value the database reads for a bound parameter of pool.execute: a
\* number is itself, a boolean is sent as the integer 1 or 0.
bindParam(v) == IF v = JsonTrue THEN 1 ELSE v

\* POST /api/matches/save with body.user2Id.  The self check compares the
\* caller with parseInt(user2Id); User.findById, User.getWithSkills and
\* Match.create bind user2Id itself, and the notification goes to the id of
\* the user that findById returned.
SaveMatch(user1Id, user2Id, faults) ==
    /\ user1Id \in UserIds
    /\ LET targetUser == bindParam(user2Id)
       IN IF user2Id = 0
          THEN /\ res' = [op |-> "saveMatch", caller |-> user1Id, target |-> user2Id,
                          status |-> 400]
               /\ UNCHANGED <<matches, notifications>>
          ELSE IF user1Id = parseInt(user2Id)
          THEN /\ res' = [op |-> "saveMatch", caller |-> user1Id, target |-> user2Id,
                          status |-> 400]
               /\ UNCHANGED <<matches, notifications>>
          ELSE IF targetUser \notin UserIds
          THEN /\ res' = [op |-> "saveMatch", caller |-> user1Id, target |-> user2Id,
                          status |-> 404]
               /\ UNCHANGED <<matches, notifications>>
          ELSE /\ matches' = Match_create(matches, user1Id, targetUser,
                                          matchedSkills(user1Id, targetUser))
               /\ notifications' = tryNotification(notifications, targetUser, user1Id,
                                                   "connection_request", faults)
               /\ res' = [op |-> "saveMatch", caller |-> user1Id, target |-> user2Id,
                          status |-> 200, matchedWith |-> targetUser,
                          matchDetails |-> matchedSkills(user1Id, targetUser)]
    /\ UNCHANGED <<users, skills, user_skills_have, user_skills_want, emails,
                   CURRENT_TIMESTAMP, requests>>

\* POST /api/matches/accept that undoes the UPDATE and answers 500 when a side
\* effect fails.
AcceptMatch_rollback(currentUserId, userId, faults) ==
    /\ currentUserId \in UserIds
    /\ LET otherUserId == parseInt(userId)
       IN IF otherUserId \in {0, NaN} \/ otherUserId = currentUserId
          THEN /\ res' = [op |-> "acceptMatch", caller |-> currentUserId,
                          target |-> otherUserId, status |-> 400]
               /\ UNCHANGED <<matches, notifications, emails>>
          ELSE IF ~Match_accept(matches, currentUserId, otherUserId).ok
          THEN /\ res' = [op |-> "acceptMatch", caller |-> currentUserId,
                          target |-> otherUserId, status |-> 404]
               /\ UNCHANGED <<matches, notifications, emails>>
          ELSE /\ matches' = IF faults = {} THEN Match_accept(matches, currentUserId, otherUserId).rows
                             ELSE matches
               /\ notifications' = tryNotification(notifications, otherUserId, currentUserId,
                                                   "connection_accepted", faults)
               /\ emails' = emails \o acceptanceEmails(currentUserId, otherUserId, faults)
               /\ res' = [op |-> "acceptMatch", caller |-> currentUserId,
                          target |-> otherUserId, status |-> IF faults = {} THEN 200 ELSE 500]
    /\ UNCHANGED <<users, skills, user_skills_have, user_skills_want,
                   CURRENT_TIMESTAMP, requests>>

\* POST /api/matches/accept with body.userId (read through parseInt), run with
\* no other request between its statements.
AcceptMatch(currentUserId, userId, faults) ==
    /\ currentUserId \in UserIds
    /\ LET otherUserId == parseInt(userId)
       IN IF otherUserId \in {0, NaN} \/ otherUserId = currentUserId
          THEN /\ res' = [op |-> "acceptMatch", caller |-> currentUserId,
                          target |-> otherUserId, status |-> 400]
               /\ UNCHANGED <<matches, notifications, emails>>
          ELSE IF ~Match_accept(matches, currentUserId, otherUserId).ok
          THEN /\ res' = [op |-> "acceptMatch", caller |-> currentUserId,
                          target |-> otherUserId, status |-> 404]
               /\ UNCHANGED <<matches, notifications, emails>>
          ELSE /\ matches' = Match_accept(matches, currentUserId, otherUserId).rows
               /\ notifications' = tryNotification(notifications, otherUserId, currentUserId,
                                                   "connection_accepted", faults)
               /\ emails' = emails \o acceptanceEmails(currentUserId, otherUserId, faults)
               /\ res' = [op |-> "acceptMatch", caller |-> currentUserId,
                          target |-> otherUserId, status |-> 200]
    /\ UNCHANGED <<users, skills, user_skills_have, user_skills_want,
                   CURRENT_TIMESTAMP, requests>>

\* POST /api/matches/decline that also mails the other user.
DeclineMatch_withEmail(currentUserId, userId, faults) ==
    /\ currentUserId \in UserIds
    /\ LET otherUserId == parseInt(userId)
       IN IF otherUserId \in {0, NaN} \/ otherUserId = currentUserId
          THEN /\ res' = [op |-> "declineMatch", caller |-> currentUserId,
                          target |-> otherUserId, status |-> 400]
               /\ UNCHANGED <<matches, notifications, emails>>
          ELSE IF ~Match_decline(matches, currentUserId, otherUserId).ok
          THEN /\ res' = [op |-> "declineMatch", caller |-> currentUserId,
                          target |-> otherUserId, status |-> 404]
               /\ UNCHANGED <<matches, notifications, emails>>
          ELSE /\ matches' = Match_decline(matches, currentUserId, otherUserId).rows
               /\ notifications' = tryNotification(notifications, otherUserId, currentUserId,
                                                   "connection_declined", faults)
               /\ emails' = Append(emails, [template |-> "ConnectionDeclined",
                                            to |-> otherUserId, success |-> TRUE])
               /\ res' = [op |-> "declineMatch", caller |-> currentUserId,
                          target |-> otherUserId, status |-> 200]
    /\ UNCHANGED <<users, skills, user_skills_have, user_skills_want,
                   CURRENT_TIMESTAMP, requests>>

\* POST /api/matches/decline with body.userId (read through parseInt), run with
\* no other request between its statements.
DeclineMatch(currentUserId, userId, faults) ==
    /\ currentUserId \in UserIds
    /\ LET otherUserId == parseInt(userId)
       IN IF otherUserId \in {0, NaN} \/ otherUserId = currentUserId
          THEN /\ res' = [op |-> "declineMatch", caller |-> currentUserId,
                          target |-> otherUserId, status |-> 400]
               /\ UNCHANGED <<matches, notifications>>
          ELSE IF ~Match_decline(matches, currentUserId, otherUserId).ok
          THEN /\ res' = [op |-> "declineMatch", caller |-> currentUserId,
                          target |-> otherUserId, status |-> 404]
               /\ UNCHANGED <<matches, notifications>>
          ELSE /\ matches' = Match_decline(matches, currentUserId, otherUserId).rows
               /\ notifications' = tryNotification(notifications, otherUserId, currentUserId,
                                                   "connection_declined", faults)
               /\ res' = [op |-> "declineMatch", caller |-> currentUserId,
                          target |-> otherUserId, status |-> 200]
    /\ UNCHANGED <<users, skills, user_skills_have, user_skills_want, emails,
                   CURRENT_TIMESTAMP, requests>>

\* ------------------------------------------- the handlers, await by await
\* A request in flight is [op, caller, target, pc, status]: pc names the await
\* the handler runs next, status is the response (0 while none is sent).  Each
\* action below is the code between two awaits; requests interleave at awaits.

\* The request reaches its handler.
Issue(op, currentUserId, otherUserId) ==
    /\ currentUserId \in UserIds
    /\ requests' = Append(requests, [op |-> op, caller |-> currentUserId,
                                     target |-> otherUserId, pc |-> "update",
                                     status |-> 0])
    /\ UNCHANGED <<users, skills, user_skills_have, user_skills_want,
                   matches, notifications, emails, res, CURRENT_TIMESTAMP>>

\* The last statement of a handler: the response of request i.
respond(i, status) ==
    /\ requests' = [requests EXCEPT ![i].pc = "done", ![i].status = status]
    /\ res' = [op |-> requests[i].op, caller |-> requests[i].caller,
               target |-> requests[i].target, status |-> status]

\* POST /api/matches/accept whose UPDATE has no "status = 'pending'".
AcceptUpdate_anyStatus(i) ==
    /\ i \in DOMAIN requests
    /\ requests[i].op = "acceptMatch"
    /\ requests[i].pc = "update"
    /\ LET currentUserId == requests[i].caller
           otherUserId == parseInt(requests[i].target)
       IN IF otherUserId \in {0, NaN} \/ otherUserId = currentUserId
          THEN respond(i, 400) /\ UNCHANGED matches
          ELSE IF ~Match_accept_anyStatus(matches, currentUserId, otherUserId).ok
          THEN respond(i, 404) /\ UNCHANGED matches
          ELSE /\ matches' = Match_accept_anyStatus(matches, currentUserId, otherUserId).rows
               /\ requests' = [requests EXCEPT ![i].pc = "notify"]
               /\ UNCHANGED res
    /\ UNCHANGED <<users, skills, user_skills_have, user_skills_want,
                   notifications, emails, CURRENT_TIMESTAMP>>

\* POST /api/matches/accept up to "await Match.accept(...)" and the early returns.
AcceptUpdate(i) ==
    /\ i \in DOMAIN requests
    /\ requests[i].op = "acceptMatch"
    /\ requests[i].pc = "update"
    /\ LET currentUserId == requests[i].caller
           otherUserId == parseInt(requests[i].target)
       IN IF otherUserId \in {0, NaN} \/ otherUserId = currentUserId
          THEN respond(i, 400) /\ UNCHANGED matches
          ELSE IF ~Match_accept(matches, currentUserId, otherUserId).ok
          THEN respond(i, 404) /\ UNCHANGED matches
          ELSE /\ matches' = Match_accept(matches, currentUserId, otherUserId).rows
               /\ requests' = [requests EXCEPT ![i].pc = "notify"]
               /\ UNCHANGED res
    /\ UNCHANGED <<users, skills, user_skills_have, user_skills_want,
                   notifications, emails, CURRENT_TIMESTAMP>>

\* POST /api/matches/accept: "await Notification.create(...)".
AcceptNotify(i, faults) ==
    /\ i \in DOMAIN requests
    /\ requests[i].op = "acceptMatch"
    /\ requests[i].pc = "notify"
    /\ notifications' = tryNotification(notifications, parseInt(requests[i].target),
                                        requests[i].caller, "connection_accepted", faults)
    /\ requests' = [requests EXCEPT ![i].pc = "emails"]
    /\ UNCHANGED <<users, skills, user_skills_have, user_skills_want,
                   matches, emails, res, CURRENT_TIMESTAMP>>

\* POST /api/matches/accept: the two sends and the response.
AcceptEmails(i, faults) ==
    /\ i \in DOMAIN requests
    /\ requests[i].op = "acceptMatch"
    /\ requests[i].pc = "emails"
    /\ emails' = emails \o acceptanceEmails(requests[i].caller, parseInt(requests[i].target), faults)
    /\ respond(i, 200)
    /\ UNCHANGED <<users, skills, user_skills_have, user_skills_want,
                   matches, notifications, CURRENT_TIMESTAMP>>

\* POST /api/matches/decline up to "await Match.decline(...)" and the early returns.
DeclineUpdate(i) ==
    /\ i \in DOMAIN requests
    /\ requests[i].op = "declineMatch"
    /\ requests[i].pc = "update"
    /\ LET currentUserId == requests[i].caller
           otherUserId == parseInt(requests[i].target)
       IN IF otherUserId \in {0, NaN} \/ otherUserId = currentUserId
          THEN respond(i, 400) /\ UNCHANGED matches
          ELSE IF ~Match_decline(matches, currentUserId, otherUserId).ok
          THEN respond(i, 404) /\ UNCHANGED matches
          ELSE /\ matches' = Match_decline(matches, currentUserId, otherUserId).rows
               /\ requests' = [requests EXCEPT ![i].pc = "notify"]
               /\ UNCHANGED res
    /\ UNCHANGED <<users, skills, user_skills_have, user_skills_want,
                   notifications, emails, CURRENT_TIMESTAMP>>

\* POST /api/matches/decline: "await Notification.create(...)" and the response.
DeclineNotify(i, faults) ==
    /\ i \in DOMAIN requests
    /\ requests[i].op = "declineMatch"
    /\ requests[i].pc = "notify"
    /\ notifications' = tryNotification(notifications, parseInt(requests[i].target),
                                        requests[i].caller, "connection_declined", faults)
    /\ respond(i, 200)
    /\ UNCHANGED <<users, skills, user_skills_have, user_skills_want,
                   matches, emails, CURRENT_TIMESTAMP>>

\* ------------------------------------------------ the notification inbox
\* getNotifications: GET /api/notifications?limit=&offset=&unreadOnly=.  An
\* absent limit or offset is 0 here; both are read through parseInt.
getNotifications(userId, limit, offset, unreadOnly, engineOrder) ==
    LET limitNum == Min(Max(IF parseInt(limit) \in {0, NaN} THEN 20 ELSE parseInt(limit), 1), 100)
        offsetNum == Max(IF parseInt(offset) \in {0, NaN} THEN 0 ELSE parseInt(offset), 0)
    IN /\ userId \in UserIds
       /\ res' = [op |-> "getNotifications", caller |-> userId, status |-> 200,
                  query |-> [limit |-> limitNum, offset |-> offsetNum,
                             unreadOnly |-> unreadOnly],
                  notifications |-> Notification_getByUserId(notifications, userId,
                                        limitNum, offsetNum, unreadOnly, engineOrder),
                  unreadCount |-> Notification_getUnreadCount(notifications, userId)]
       /\ UNCHANGED <<users, skills, user_skills_have, user_skills_want, matches,
                      notifications, emails, CURRENT_TIMESTAMP, requests>>

\* getUnreadCount: GET /api/notifications/unread-count
getUnreadCount(userId) ==
    /\ userId \in UserIds
    /\ res' = [op |-> "getUnreadCount", caller |-> userId, status |-> 200,
               unreadCount |-> Notification_getUnreadCount(notifications, userId)]
    /\ UNCHANGED <<users, skills, user_skills_have, user_skills_want, matches,
                   notifications, emails, CURRENT_TIMESTAMP, requests>>

\* markAsRead: PUT /api/notifications/:id/read
markAsRead(userId, id) ==
    LET notificationId == parseInt(id)
    IN /\ userId \in UserIds
       /\ IF notificationId = NaN \/ notificationId < 1
          THEN /\ res' = [op |-> "markAsRead", caller |-> userId, id |-> id, status |-> 400]
               /\ UNCHANGED notifications
          ELSE /\ notifications' = Notification_markAsRead(notifications, notificationId, userId)
               /\ res' = [op |-> "markAsRead", caller |-> userId, id |-> id, status |-> 200]
       /\ UNCHANGED <<users, skills, user_skills_have, user_skills_want, matches,
                      emails, CURRENT_TIMESTAMP, requests>>

\* markAllAsRead: PUT /api/notifications/mark-all-read
markAllAsRead(userId) ==
    /\ userId \in UserIds
    /\ notifications' = Notification_markAllAsRead(notifications, userId)
    /\ res' = [op |-> "markAllAsRead", caller |-> userId, status |-> 200]
    /\ UNCHANGED <<users, skills, user_skills_have, user_skills_want, matches,
                   emails, CURRENT_TIMESTAMP, requests>>

\* deleteNotification: DELETE /api/notifications/:id
deleteNotification(userId, id) ==
    LET notificationId == parseInt(id)
    IN /\ userId \in UserIds
       /\ IF notificationId = NaN \/ notificationId < 1
          THEN /\ res' = [op |-> "deleteNotification", caller |-> userId, id |-> id,
                          status |-> 400]
               /\ UNCHANGED notifications
          ELSE /\ notifications' = Notification_delete(notifications, notificationId, userId)
               /\ res' = [op |-> "deleteNotification", caller |-> userId, id |-> id,
                          status |-> 200]
       /\ UNCHANGED <<users, skills, user_skills_have, user_skills_want, matches,
                      emails, CURRENT_TIMESTAMP, requests>>

\* matchController.updateMatchStatus: PUT /api/matches/:matchId/status
updateMatchStatus(userId, matchId, status) ==
    /\ userId \in UserIds
    /\ IF matchId < 1
       THEN /\ res' = [op |-> "updateMatchStatus", status |-> 400]
            /\ UNCHANGED matches
       ELSE IF status \notin {"accepted", "declined", "expired"}
       THEN /\ res' = [op |-> "updateMatchStatus", status |-> 400]
            /\ UNCHANGED matches
       ELSE IF ~\E r \in matches : r.id = matchId /\ (r.user1_id = userId \/ r.user2_id = userId)
       THEN /\ res' = [op |-> "updateMatchStatus", status |-> 404]
            /\ UNCHANGED matches
       ELSE /\ matches' = {IF r.id = matchId
                            THEN [r EXCEPT !.status = status,
                                           !.updated_at = CURRENT_TIMESTAMP]
                            ELSE r : r \in matches}
            /\ res' = [op |-> "updateMatchStatus", status |-> 200,
                       matchId |-> matchId, newStatus |-> status]
    /\ UNCHANGED <<users, skills, user_skills_have, user_skills_want,
                   notifications, emails, CURRENT_TIMESTAMP, requests>>

\* A second passes: the value of CURRENT_TIMESTAMP the next statement reads.
Tick ==
    /\ CURRENT_TIMESTAMP' = CURRENT_TIMESTAMP + 1
    /\ UNCHANGED <<users, skills, user_skills_have, user_skills_want,
                   matches, notifications, emails, res, requests>>

\* -------------------------------------------------------------------- Init
noRes == [op |-> "none"]

Init ==
    /\ users = <<>>
    /\ skills = <<>>
    /\ user_skills_have = {}
    /\ user_skills_want = {}
    /\ matches = {}
    /\ notifications = <<>>
    /\ emails = <<>>
    /\ res = noRes
    /\ CURRENT_TIMESTAMP = 0
    /\ requests = <<>>

ConcatOrders == {"asc", "desc"}

\* The bounds of the exploration: registered users and skill-list rows.
WithinBounds ==
    /\ Len(users') <= MaxUsers
    /\ Cardinality(user_skills_have') + Cardinality(user_skills_want') <= MaxRows

Next ==
    \/ \E name \in UserNames : Register(name) /\ WithinBounds
    \/ \E u \in UserIds, name \in SkillNameInputs :
          AddToHave(u, name, "intermediate") /\ WithinBounds
    \/ \E u \in UserIds, name \in SkillNameInputs :
          AddToWant(u, name, "medium") /\ WithinBounds
    \/ \E u \in UserIds, s \in {0} \cup SkillIds : RemoveFromHave(u, s)
    \/ \E u \in UserIds, s \in {0} \cup SkillIds : RemoveFromWant(u, s)
    \/ \E u \in UserIds, eo \in EngineOrders(UserIds), co \in ConcatOrders :
          GetMatches(u, eo, co, DefaultLimit, 0)
    \/ \E u \in UserIds, t \in 1..(Len(users) + 1) : GetDetailedMatch(u, t)

Spec == Init /\ [][Next]_vars

\* ------------------------------------------------- a populated database
\* A database after CrowdSize registrations: user 1 has skill 1 and wants skill 2,
\* every other user has skill 2 and, but for the last one who wants nothing yet,
\* wants skill 1.  Names fall as ids rise.
CrowdSize == FindMatchesLimit + 2
CrowdSkillNames == { <<"g">>, <<"p">> }
CrowdActive == {1, CrowdSize}

InitCrowd ==
    /\ users = [i \in 1..CrowdSize |-> CrowdSize + 1 - i]
    /\ skills = << <<"g">>, <<"p">> >>
    /\ user_skills_have =
          {[user_id |-> i, skill_id |-> IF i = 1 THEN 1 ELSE 2,
            proficiency_level |-> "intermediate"] : i \in 1..CrowdSize}
    /\ user_skills_want =
          {[user_id |-> i, skill_id |-> IF i = 1 THEN 2 ELSE 1,
            urgency_level |-> "medium"] : i \in 1..(CrowdSize - 1)}
    /\ matches = {}
    /\ notifications = <<>>
    /\ emails = <<>>
    /\ res = noRes
    /\ CURRENT_TIMESTAMP = 0
    /\ requests = <<>>

NextCrowd ==
    \/ \E u \in CrowdActive, name \in CrowdSkillNames : AddToHave(u, name, "intermediate")
    \/ \E u \in CrowdActive, name \in CrowdSkillNames : AddToWant(u, name, "medium")
    \/ \E u \in CrowdActive, s \in SkillIds : RemoveFromHave(u, s)
    \/ \E u \in CrowdActive, s \in SkillIds : RemoveFromWant(u, s)
    \/ \E u \in CrowdActive, eo \in EngineOrders(UserIds), co \in ConcatOrders :
          GetMatches(u, eo, co, DefaultLimit, 0)

SpecCrowd == InitCrowd /\ [][NextCrowd]_vars

\* ------------------------------------------------ three registered users
\* The database after three registrations, before any skill is added; the
\* second user's name sorts after the third's.
InitRank ==
    /\ users = <<1, 3, 2>>
    /\ skills = <<>>
    /\ user_skills_have = {}
    /\ user_skills_want = {}
    /\ matches = {}
    /\ notifications = <<>>
    /\ emails = <<>>
    /\ res = noRes
    /\ CURRENT_TIMESTAMP = 0
    /\ requests = <<>>

RankRows == 2 * Len(users)

NextRank ==
    \/ \E u \in UserIds, name \in CrowdSkillNames :
          /\ AddToHave(u, name, "intermediate")
          /\ Cardinality(user_skills_have') + Cardinality(user_skills_want') <= RankRows
    \/ \E u \in UserIds, name \in CrowdSkillNames :
          /\ AddToWant(u, name, "medium")
          /\ Cardinality(user_skills_have') + Cardinality(user_skills_want') <= RankRows
    \/ \E u \in UserIds, s \in SkillIds : RemoveFromHave(u, s)
    \/ \E u \in UserIds, s \in SkillIds : RemoveFromWant(u, s)
    \/ \E u \in UserIds, eo \in EngineOrders(UserIds), co \in ConcatOrders :
          GetMatches(u, eo, co, DefaultLimit, 0)

SpecRank == InitRank /\ [][NextRank]_vars

\* ------------------------------------------- the connection workflow runs
\* The database after two registrations and their skill additions: user 1 has
\* skill 1 and wants skill 2, user 2 has skill 2 and wants skill 1.
InitConn ==
    /\ users = <<1, 2>>
    /\ skills = << <<"g">>, <<"p">> >>
    /\ user_skills_have =
          {[user_id |-> i, skill_id |-> IF i = 1 THEN 1 ELSE 2,
            proficiency_level |-> "intermediate"] : i \in 1..2}
    /\ user_skills_want =
          {[user_id |-> 1, skill_id |-> 2, urgency_level |-> "medium"],
           [user_id |-> 2, skill_id |-> 1, urgency_level |-> "medium"]}
    /\ matches = {}
    /\ notifications = <<>>
    /\ emails = <<>>
    /\ res = noRes
    /\ CURRENT_TIMESTAMP = 0
    /\ requests = <<>>

StatusInputs == {"pending", "accepted", "declined", "expired"}

\* The users who issue requests.
ConnCallers == {1, 2}

\* The values a request body carries for the other user's id: absent, each
\* user id, an id of no user, and the literal true.
BodyValues == (0..(Len(users) + 1)) \cup {JsonTrue}

NextConn ==
    \/ \E u \in ConnCallers, t \in BodyValues :
          SaveMatch(u, t, {}) /\ Len(notifications') <= MaxNotifications
    \/ \E u \in ConnCallers, t \in BodyValues :
          AcceptMatch(u, t, {}) /\ Len(notifications') <= MaxNotifications
    \/ \E u \in ConnCallers, t \in BodyValues :
          DeclineMatch(u, t, {}) /\ Len(notifications') <= MaxNotifications
    \/ \E u \in ConnCallers, m \in 0..(Cardinality(matches) + 1), st \in StatusInputs :
          updateMatchStatus(u, m, st)

SpecConn == InitConn /\ [][NextConn]_vars

\* ------------------------------------------ proposals over changing skills
\* Two registered users in reciprocal overlap: user 1 has skill 1 and wants
\* skill 2, user 2 has skill 2 and wants skill 1.  User 1 drops and restores
\* the wanted skill, seconds pass, and both users propose, accept and decline.
InitPropose ==
    /\ users = <<1, 2>>
    /\ skills = << <<"g">>, <<"p">> >>
    /\ user_skills_have =
          {[user_id |-> i, skill_id |-> i, proficiency_level |-> "intermediate"] : i \in 1..2}
    /\ user_skills_want =
          {[user_id |-> i, skill_id |-> 3 - i, urgency_level |-> "medium"] : i \in 1..2}
    /\ matches = {}
    /\ notifications = <<>>
    /\ emails = <<>>
    /\ res = noRes
    /\ CURRENT_TIMESTAMP = 0
    /\ requests = <<>>

NextPropose ==
    \/ \E u \in UserIds, t \in UserIds :
          SaveMatch(u, t, {}) /\ Len(notifications') <= MaxInbox
    \/ \E u \in UserIds, t \in UserIds :
          AcceptMatch(u, t, {}) /\ Len(notifications') <= MaxInbox
    \/ \E u \in UserIds, t \in UserIds :
          DeclineMatch(u, t, {}) /\ Len(notifications') <= MaxInbox
    \/ AddToWant(1, <<"p">>, "medium")
    \/ RemoveFromWant(1, 2)
    \/ Tick /\ CURRENT_TIMESTAMP' <= MaxTime

SpecPropose == InitPropose /\ [][NextPropose]_vars

\* --------------------------------------------------- failing side effects
\* The two users of InitPropose propose, accept and decline while the side
\* effects of accept fail in every combination.
NextFault ==
    \/ \E u \in UserIds, t \in UserIds :
          SaveMatch(u, t, {}) /\ Len(notifications') <= MaxNotifications
    \/ \E u \in UserIds, t \in UserIds, f \in SUBSET Faults :
          AcceptMatch(u, t, f) /\ Len(notifications') <= MaxNotifications
    \/ \E u \in UserIds, t \in UserIds :
          DeclineMatch(u, t, {}) /\ Len(notifications') <= MaxNotifications

SpecFault == InitPropose /\ [][NextFault]_vars

\* ------------------------------------------------- concurrent decisions
\* Users 1 and 2 after propose(1,2), or after propose(1,2) and propose(2,1):
\* the pair has one or two pending rows and accept and decline requests of
\* either user run interleaved.
RaceRow(id, user1Id, user2Id) ==
    [id |-> id, user1_id |-> user1Id, user2_id |-> user2Id,
     matched_skills |-> matchedSkills(user1Id, user2Id),
     status |-> "pending", updated_at |-> 0]

InitRace ==
    /\ users = <<1, 2>>
    /\ skills = << <<"g">>, <<"p">> >>
    /\ user_skills_have =
          {[user_id |-> i, skill_id |-> i, proficiency_level |-> "intermediate"] : i \in 1..2}
    /\ user_skills_want =
          {[user_id |-> i, skill_id |-> 3 - i, urgency_level |-> "medium"] : i \in 1..2}
    /\ CURRENT_TIMESTAMP = 0
    /\ \/ /\ matches = {RaceRow(1, 1, 2)}
          /\ notifications = Notification_create(<<>>, 2, 1, "connection_request")
       \/ /\ matches = {RaceRow(1, 1, 2), RaceRow(2, 2, 1)}
          /\ notifications = Notification_create(
                                 Notification_create(<<>>, 2, 1, "connection_request"),
                                 1, 2, "connection_request")
    /\ emails = <<>>
    /\ res = noRes
    /\ requests = <<>>

NextRace ==
    \/ \E op \in {"acceptMatch", "declineMatch"}, u \in UserIds, t \in UserIds :
          Issue(op, u, t) /\ Len(requests') <= MaxRequests
    \/ \E i \in DOMAIN requests : AcceptUpdate(i)
    \/ \E i \in DOMAIN requests : AcceptNotify(i, {})
    \/ \E i \in DOMAIN requests : AcceptEmails(i, {})
    \/ \E i \in DOMAIN requests : DeclineUpdate(i)
    \/ \E i \in DOMAIN requests : DeclineNotify(i, {})

SpecRace == InitRace /\ [][NextRace]_vars

\* ------------------------------------------------ skills named in any case
\* One registered user and an empty skills table.
InitSkills ==
    /\ users = <<1>>
    /\ skills = <<>>
    /\ user_skills_have = {}
    /\ user_skills_want = {}
    /\ matches = {}
    /\ notifications = <<>>
    /\ emails = <<>>
    /\ res = noRes
    /\ CURRENT_TIMESTAMP = 0
    /\ requests = <<>>

\* Names of one skill in two cases, with and without a leading blank.
SkillCaseInputs == { <<"g">>, <<"G">>, <<" ", "G">> }

ProficiencyInputs == {"beginner", "expert"}

UrgencyInputs == {"low", "high"}

\* The skill lists of a registration: none, or one name in either list.
SkillListInputs == {<<>>} \cup {<<n>> : n \in SkillCaseInputs}

NextSkills ==
    \/ \E h \in SkillListInputs, w \in SkillListInputs :
          /\ h = <<>> \/ w = <<>>
          /\ RegisterWithSkills(1, h, w)
          /\ Len(users') <= MaxUsers
    \/ \E n \in SkillCaseInputs, l \in ProficiencyInputs : AddToHave(1, n, l)
    \/ \E n \in SkillCaseInputs, l \in UrgencyInputs : AddToWant(1, n, l)
    \/ \E k \in 0..(Len(skills) + 1), l \in ProficiencyInputs \cup {"", "master"} :
          UpdateProficiency(1, k, l)
    \/ \E k \in 0..(Len(skills) + 1), l \in UrgencyInputs \cup {"", "now"} :
          UpdateUrgency(1, k, l)
    \/ \E k \in 0..Len(skills) : RemoveFromHave(1, k)
    \/ \E k \in 0..Len(skills) : RemoveFromWant(1, k)

SpecSkills == InitSkills /\ [][NextSkills]_vars

\* ------------------------------------------ additions of one skill at once
\* add-to-have and add-to-want, await by await.  A request in flight is
\* [op, caller, name, pc, skill, status]: name is the body's name after
\* validateSkills has trimmed it, skill the id that Skill.findOrCreate returned
\* (0 while none), and the level is left to its default.

\* The request reaches its handler and enters Skill.findOrCreate.
IssueAdd(op, userId, name) ==
    /\ userId \in UserIds
    /\ requests' = Append(requests, [op |-> op, caller |-> userId, name |-> trim(name),
                                     pc |-> "select", skill |-> 0, status |-> 0])
    /\ UNCHANGED <<users, skills, user_skills_have, user_skills_want,
                   matches, notifications, emails, res, CURRENT_TIMESTAMP>>

\* Skill.findOrCreate up to its return or its INSERT: the SELECT by
\* LOWER(skill_name).
FindOrCreateSelect(i) ==
    /\ i \in DOMAIN requests
    /\ requests[i].pc = "select"
    /\ LET normalizedName == toLowerCase(trim(requests[i].name))
           found == {k \in DOMAIN skills : toLowerCase(skills[k]) = normalizedName}
       IN requests' = IF found # {}
                      THEN [requests EXCEPT ![i].pc = "attach",
                                            ![i].skill = CHOOSE k \in found : \A j \in found : k <= j]
                      ELSE [requests EXCEPT ![i].pc = "insert"]
    /\ UNCHANGED <<users, skills, user_skills_have, user_skills_want,
                   matches, notifications, emails, res, CURRENT_TIMESTAMP>>

\* The INSERT of Skill.findOrCreate: a row whose name the UNIQUE key of
\* skill_name already holds makes query throw, and the handler's catch answers
\* 500.
FindOrCreateInsert(i) ==
    /\ i \in DOMAIN requests
    /\ requests[i].pc = "insert"
    /\ IF \E k \in DOMAIN skills : CollEq(skills[k], requests[i].name)
       THEN /\ requests' = [requests EXCEPT ![i].pc = "done", ![i].status = 500]
            /\ res' = [op |-> requests[i].op, status |-> 500]
            /\ UNCHANGED skills
       ELSE /\ skills' = Append(skills, requests[i].name)
            /\ requests' = [requests EXCEPT ![i].pc = "attach", ![i].skill = Len(skills) + 1]
            /\ UNCHANGED res
    /\ UNCHANGED <<users, user_skills_have, user_skills_want,
                   matches, notifications, emails, CURRENT_TIMESTAMP>>

\* Skill.addToUserHave / addToUserWant with the returned id, then the response
\* (User.getWithSkills before it only reads).
AddSkillAttach(i) ==
    /\ i \in DOMAIN requests
    /\ requests[i].pc = "attach"
    /\ LET userId == requests[i].caller
           skillId == requests[i].skill
       IN IF requests[i].op = "addToHave"
          THEN /\ user_skills_have' =
                     Skill_addToUserHave(user_skills_have, userId, skillId, "intermediate")
               /\ res' = [op |-> "addToHave", status |-> 200, caller |-> userId,
                          addedSkills |-> <<[id |-> skillId, skill_name |-> skills[skillId],
                                             proficiency_level |-> "intermediate"]>>]
               /\ UNCHANGED user_skills_want
          ELSE /\ user_skills_want' =
                     Skill_addToUserWant(user_skills_want, userId, skillId, "medium")
               /\ res' = [op |-> "addToWant", status |-> 200, caller |-> userId,
                          addedSkills |-> <<[id |-> skillId, skill_name |-> skills[skillId],
                                             urgency_level |-> "medium"]>>]
               /\ UNCHANGED user_skills_have
    /\ requests' = [requests EXCEPT ![i].pc = "done", ![i].status = 200]
    /\ UNCHANGED <<users, skills, matches, notifications, emails, CURRENT_TIMESTAMP>>

\* Two registered users and an empty skills table.
InitSkillRace ==
    /\ users = <<1, 2>>
    /\ skills = <<>>
    /\ user_skills_have = {}
    /\ user_skills_want = {}
    /\ matches = {}
    /\ notifications = <<>>
    /\ emails = <<>>
    /\ res = noRes
    /\ CURRENT_TIMESTAMP = 0
    /\ requests = <<>>

\* One skill named in either case.
SkillRaceInputs == { <<"g">>, <<"G">> }

NextSkillRace ==
    \/ \E op \in {"addToHave", "addToWant"}, u \in UserIds, n \in SkillRaceInputs :
          IssueAdd(op, u, n) /\ Len(requests') <= MaxRequests
    \/ \E i \in DOMAIN requests : FindOrCreateSelect(i)
    \/ \E i \in DOMAIN requests : FindOrCreateInsert(i)
    \/ \E i \in DOMAIN requests : AddSkillAttach(i)

SpecSkillRace == InitSkillRace /\ [][NextSkillRace]_vars

\* ---------------------------------------------------- the inbox of two users
\* Users 1 and 2 after propose(1,2) and propose(2,1): each has one unread
\* connection_request.  User 1 proposes again while seconds pass, and both
\* users read, mark and delete notifications.
InitInbox ==
    /\ users = <<1, 2>>
    /\ skills = << <<"g">>, <<"p">> >>
    /\ user_skills_have =
          {[user_id |-> i, skill_id |-> i, proficiency_level |-> "intermediate"] : i \in 1..2}
    /\ user_skills_want =
          {[user_id |-> i, skill_id |-> 3 - i, urgency_level |-> "medium"] : i \in 1..2}
    /\ CURRENT_TIMESTAMP = 0
    /\ matches = {RaceRow(1, 1, 2), RaceRow(2, 2, 1)}
    /\ notifications = Notification_create(
                           Notification_create(<<>>, 2, 1, "connection_request"),
                           1, 2, "connection_request")
    /\ emails = <<>>
    /\ res = noRes
    /\ requests = <<>>

\* Values of the limit and offset parameters: absent, and 1.
LimitInputs == {0, 1}

NextInbox ==
    \/ \E t \in UserIds :
          SaveMatch(1, t, {}) /\ Len(notifications') <= MaxInbox
    \/ Tick /\ CURRENT_TIMESTAMP' <= MaxTime
    \/ \E u \in UserIds, limit \in LimitInputs, offset \in LimitInputs,
          unreadOnly \in BOOLEAN, engineOrder \in EngineOrders(DOMAIN notifications) :
          getNotifications(u, limit, offset, unreadOnly, engineOrder)
    \/ \E u \in UserIds : getUnreadCount(u)
    \/ \E u \in UserIds, id \in 0..(Len(notifications) + 1) : markAsRead(u, id)
    \/ \E u \in UserIds : markAllAsRead(u)
    \/ \E u \in UserIds, id \in 0..(Len(notifications) + 1) : deleteNotification(u, id)

SpecInbox == InitInbox /\ [][NextInbox]_vars

\* ================================================================= claims
\* The skills a user has / wants, as the rows of the two tables say.
Have(u) == {r.skill_id : r \in {x \in user_skills_have : x.user_id = u}}
Want(u) == {r.skill_id : r \in {x \in user_skills_want : x.user_id = u}}

Reciprocal(R, U) == Have(R) \cap Want(U) # {} /\ Have(U) \cap Want(R) # {}

\* The ids of the candidates in a processed list.
IdsOf(list) == {list[i].id : i \in DOMAIN list}

\* The ids of the candidates GET /api/matches lists for R, over all its pages.
CandidateIds(R, eo, co) == IdsOf(processedMatches(R, eo, co))

\* The entry of candidate U in a processed list.
EntryIn(list, U) == list[CHOOSE i \in DOMAIN list : list[i].id = U]

\* The lists GET /api/matches can answer R with, one for each order the engine
\* may take.
ListsFor(R) ==
    {processedMatches(R, eo, co) : eo \in EngineOrders(UserIds), co \in ConcatOrders}

\* An array as a bag: how often each element occurs.
BagOf(seq) == [x \in Range(seq) |-> Cardinality({i \in DOMAIN seq : seq[i] = x})]

NamesOf(ids) == {skills[i] : i \in ids \cap SkillIds}

\* C1: for every requester R and other user U, U is in the candidate list of
\* GET /api/matches for R iff R's have-skills meet U's want-skills and U's
\* have-skills meet R's want-skills.
C1_CandidateIffReciprocal ==
    \A R \in UserIds : \A list \in ListsFor(R) : \A ids \in {IdsOf(list)} :
      \A U \in UserIds \ {R} : U \in ids <=> Reciprocal(R, U)

\* C2: candidate membership is symmetric: A is in the list computed for B iff
\* B is in the list computed for A.
C2_CandidateSymmetric ==
    \A A \in UserIds : \A listA \in ListsFor(A) :
      \A B \in IdsOf(listA) : \A listB \in ListsFor(B) : A \in IdsOf(listB)

\* C3: for users A and B that are candidates of each other, skillsYouCanTeachThem
\* for requester A about B equals skillsTheyCanTeachYou for requester B about A
\* (and the other way round), as collections of names whatever order the engine
\* lists them in, and the two matchScores are equal.
C3_TeachSetsMirror ==
    \A A \in UserIds : \A listA \in ListsFor(A) :
      \A B \in IdsOf(listA) : \A listB \in ListsFor(B) :
        A \in IdsOf(listB) =>
          \A ab \in {EntryIn(listA, B)}, ba \in {EntryIn(listB, A)} :
            /\ BagOf(ab.skillsYouCanTeachThem) = BagOf(ba.skillsTheyCanTeachYou)
            /\ BagOf(ab.skillsTheyCanTeachYou) = BagOf(ba.skillsYouCanTeachThem)
            /\ ab.matchScore = ba.matchScore

\* Two users list each other, with a different skill in each direction, and one
\* of them can teach a second skill that the other does not want.
C3_Witness ==
    \E A \in UserIds, B \in UserIds :
      /\ B \in CandidateIds(A, SetToSeqAsc(UserIds), "asc")
      /\ A \in CandidateIds(B, SetToSeqAsc(UserIds), "asc")
      /\ Have(A) \cap Want(B) # Have(B) \cap Want(A)
      /\ Have(B) \ Want(A) # {}

\* C4: for every candidate U returned for R, skillsYouCanTeachThem is exactly the
\* names of R's have meet U's want, skillsTheyCanTeachYou exactly the names of
\* U's have meet R's want, and matchScore is the sum of the sizes of the two sets.
C4_EntryIsOverlap ==
    \A R \in UserIds : \A list \in ListsFor(R) : \A i \in DOMAIN list :
      \A e \in {list[i]} :
        /\ Range(e.skillsYouCanTeachThem) = NamesOf(Have(R) \cap Want(e.id))
        /\ Range(e.skillsTheyCanTeachYou) = NamesOf(Have(e.id) \cap Want(R))
        /\ e.matchScore = Cardinality(Have(R) \cap Want(e.id))
                            + Cardinality(Have(e.id) \cap Want(R))

\* C5: the candidate list is ordered by matchScore descending, and candidates of
\* equal matchScore are in ascending order of user name.
C5_RankedByScoreThenName ==
    \A R \in UserIds : \A list \in ListsFor(R) :
      \A i \in DOMAIN list, j \in DOMAIN list :
        i < j => /\ list[i].matchScore >= list[j].matchScore
                 /\ (list[i].matchScore = list[j].matchScore
                       => list[i].name <= list[j].name)

\* C6: the requester is never in their own candidate list, and a user without
\* have-skills or without want-skills has an empty candidate list and is in no
\* other user's list (every listed user has a have-skill and a want-skill).
C6_SelfAndEmptyExcluded ==
    \A R \in UserIds : \A list \in ListsFor(R) :
      /\ R \notin IdsOf(list)
      /\ \A U \in IdsOf(list) : Have(U) # {} /\ Want(U) # {}
      /\ (Have(R) = {} \/ Want(R) = {}) => list = <<>>

\* A user has and wants the same skill (a self overlap), and another user who
\* wants nothing has a skill the first one wants (a one-directional overlap).
C6_Witness ==
    \E R \in UserIds, U \in UserIds :
      /\ R # U
      /\ Have(R) \cap Want(R) # {}
      /\ Want(U) = {}
      /\ Have(U) \cap Want(R) # {}

\* C7: GET /api/matches and GET /api/matches/detailed/:userId change no row of
\* users, skills, user_skills_have, user_skills_want, matches or notifications.
C7_ReadsChangeNothing ==
    [][res'.op \in {"getMatches", "getDetailedMatch"} => db' = db]_vars

\* Both reads have answered on a database that holds a reciprocal pair.
C7_Witness ==
    /\ res.op = "getDetailedMatch"
    /\ res.status = 200
    /\ res.isValidMatch
    /\ \E R \in UserIds : CandidateIds(R, SetToSeqAsc(UserIds), "asc") # {}

ConnOps == {"saveMatch", "acceptMatch", "declineMatch"}

\* C8: after any sequence of propose, accept and decline operations, at most one
\* connection row exists for each unordered pair of users.
C8_OneRowPerUnorderedPair ==
    \A r1 \in matches, r2 \in matches :
      {r1.user1_id, r1.user2_id} = {r2.user1_id, r2.user2_id} => r1 = r2

\* C9: a connection leaves pending at most once: no step puts a row back to
\* pending, and once a row is accepted or declined no propose, accept or decline
\* changes its status.
C9_LeavesPendingOnce ==
    [][\A r \in matches :
         r.status # "pending" =>
           \E r2 \in matches' :
             /\ r2.id = r.id
             /\ r2.status # "pending"
             /\ (res'.op \in ConnOps /\ r.status \in {"accepted", "declined"}
                   => r2.status = r.status)]_vars

\* A propose for a pair whose row is declined has been answered with success.
C9_Witness ==
    /\ res.op = "saveMatch"
    /\ res.status = 200
    /\ \E r \in matches : /\ r.status = "declined"
                          /\ r.user2_id = res.matchedWith
                          /\ r.user1_id # r.user2_id

\* The status changes of a step: <<before, after>> of every row that changed.
StatusChanges ==
    {<<r.status, r2.status>> :
       <<r, r2>> \in {p \in matches \X matches' : p[1].id = p[2].id /\ p[1].status # p[2].status}}

C11_ProposeErrors ==
    [][(res'.op = "saveMatch" /\ res' # res /\ res'.target # 0
          /\ (bindParam(res'.target) = res'.caller \/ bindParam(res'.target) \notin UserIds))
       => /\ res'.status = (IF bindParam(res'.target) = res'.caller THEN 400 ELSE 404)
          /\ matches' = matches
          /\ notifications' = notifications]_vars

\* The row of matches' that has the id of row r.
RowAfter(r) == CHOOSE r2 \in matches' : r2.id = r.id

\* C12: when propose(A,B) succeeds and a connection of the pair {A,B} already
\* exists, that connection keeps its status, and its skills snapshot and its
\* updated_at are refreshed: the snapshot is the one computed from the two
\* users' current skills and updated_at is the current time.
C12_ReproposeRefreshes ==
    [][(res'.op = "saveMatch" /\ res' # res /\ res'.status = 200)
       => \A r \in pairRows(matches, res'.caller, res'.target) :
             /\ RowAfter(r).status = r.status
             /\ RowAfter(r).matched_skills \in {matchedSkills(r.user1_id, r.user2_id),
                                                matchedSkills(r.user2_id, r.user1_id)}
             /\ RowAfter(r).updated_at = CURRENT_TIMESTAMP]_vars

\* C13: propose is idempotent: when propose(A,B) succeeds right after a
\* successful propose(A,B), with no change of either user's skills in between,
\* exactly one connection row exists for the pair {A,B} and its skills snapshot
\* is the one the first call returned.
C13_ProposeIdempotent ==
    [][(/\ res.op = "saveMatch" /\ res.status = 200
        /\ res'.op = "saveMatch" /\ res'.status = 200
        /\ res'.caller = res.caller /\ res'.target = res.target
        /\ notifications' # notifications)
       => /\ Cardinality(pairRows(matches', res.caller, res.target)) = 1
          /\ \A r \in pairRows(matches', res.caller, res.target) :
                r.matched_skills = res.matchDetails]_vars

\* C14: every successful propose(A,B) creates a connection_request notification
\* whose recipient is B and whose sender is A, and every connection_request
\* notification is addressed to the target of a proposal of its sender, never
\* to the sender.
C14_RequestNotifiesTarget ==
    [][/\ (res'.op = "saveMatch" /\ res' # res /\ res'.status = 200)
          => /\ Len(notifications') = Len(notifications) + 1
             /\ SubSeq(notifications', 1, Len(notifications)) = notifications
             /\ notifications'[Len(notifications')].type = "connection_request"
             /\ notifications'[Len(notifications')].user_id = res'.matchedWith
             /\ notifications'[Len(notifications')].from_user_id = res'.caller
       /\ \A i \in DOMAIN notifications' :
             notifications'[i].type = "connection_request"
             => /\ notifications'[i].user_id # notifications'[i].from_user_id
                /\ \E r \in matches' : /\ r.user1_id = notifications'[i].from_user_id
                                        /\ r.user2_id = notifications'[i].user_id]_vars

\* C15: an accept or decline for a pair that has no pending connection, because
\* none exists or because it was already accepted or declined, is answered 404
\* and changes no connection row, creates no notification and sends no email.
C15_NoPendingIsNotFound ==
    [][(/\ res'.op \in {"acceptMatch", "declineMatch"} /\ res' # res
        /\ res'.target \notin {0, NaN, res'.caller}
        /\ \A r \in pairRows(matches, res'.caller, res'.target) : r.status # "pending")
       => /\ res'.status = 404
          /\ matches' = matches
          /\ notifications' = notifications
          /\ emails' = emails]_vars

\* A decline has been refused for a pair whose connection is accepted.
C15_Witness ==
    /\ res.op = "declineMatch"
    /\ res.status = 404
    /\ \E r \in pairRows(matches, res.caller, res.target) : r.status = "accepted"
    /\ emails # <<>>

\* The connections whose status the step changes.
Transitioned == {r \in matches : RowAfter(r).status # r.status}

\* C16: a successful accept of a connection proposed by A to B creates exactly
\* one connection_accepted notification, addressed to the requester A, and
\* attempts exactly two email sends, one to A and one to B.
C16_AcceptNotifiesRequester ==
    [][(res'.op = "acceptMatch" /\ res' # res /\ res'.status = 200)
       => \A r \in Transitioned :
             /\ Len(notifications') = Len(notifications) + 1
             /\ SubSeq(notifications', 1, Len(notifications)) = notifications
             /\ notifications'[Len(notifications')].type = "connection_accepted"
             /\ notifications'[Len(notifications')].user_id = r.user1_id
             /\ Len(emails') = Len(emails) + 2
             /\ SubSeq(emails', 1, Len(emails)) = emails
             /\ {emails'[i].to : i \in (Len(emails) + 1)..Len(emails')}
                   = {r.user1_id, r.user2_id}]_vars

\* C17: an accept or a decline issued by the initiator of a pending proposal
\* against its target does not change the status of that connection.
C17_OnlyCounterpartDecides ==
    [][(res'.op \in {"acceptMatch", "declineMatch"} /\ res' # res)
       => \A r \in matches :
             (r.status = "pending" /\ r.user1_id = res'.caller /\ r.user2_id = res'.target)
             => RowAfter(r).status = r.status]_vars

\* C18: an accept whose UPDATE finds a pending connection of the pair answers
\* 200 and leaves that connection accepted whichever of its side effects fail
\* (the notification INSERT, either or both mails); and no step returns a
\* connection to pending.
C18_SideEffectFailuresKeepAccepted ==
    [][/\ (/\ res'.op = "acceptMatch" /\ res' # res
           /\ res'.target \notin {0, NaN, res'.caller}
           /\ \E r \in pairRows(matches, res'.caller, res'.target) : r.status = "pending")
          => /\ res'.status = 200
             /\ \A r \in pairRows(matches, res'.caller, res'.target) :
                   r.status = "pending" => RowAfter(r).status = "accepted"
       /\ \A r \in matches : r.status # "pending" => RowAfter(r).status = r.status]_vars

\* An accept has answered success although the notification INSERT and both
\* mails failed: the connection is accepted, no connection_accepted
\* notification exists and the two sends are recorded as failed.
C18_Witness ==
    /\ res.op = "acceptMatch"
    /\ res.status = 200
    /\ \E r \in pairRows(matches, res.caller, res.target) : r.status = "accepted"
    /\ \A i \in DOMAIN notifications : notifications[i].type # "connection_accepted"
    /\ Len(emails) = 2
    /\ \A i \in DOMAIN emails : ~emails[i].success

OfType(type) == {i \in DOMAIN notifications : notifications[i].type = type}

C21_DistinctUsers ==
    \A r \in matches : r.user1_id # r.user2_id

\* C22: after any sequence of skill additions through registration,
\* add-to-have and add-to-want, no two rows of skills have names that are
\* equal ignoring case; and an addition of a name that differs from a stored
\* name at most in case adds no row and attaches the user to the stored id.
C22_SkillNamesUnique ==
    /\ [](\A i, j \in DOMAIN skills :
             toLowerCase(skills[i]) = toLowerCase(skills[j]) => i = j)
    /\ [][/\ (res'.op = "addToHave" /\ res'.status = 200)
             => \A i \in DOMAIN skills :
                   (\E n \in SkillCaseInputs :
                       /\ toLowerCase(skills[i]) = toLowerCase(n)
                       /\ AddToHave(1, n, res'.addedSkills[1].proficiency_level))
                   => /\ skills' = skills
                      /\ res'.addedSkills[1].id = i
          /\ (res'.op = "addToWant" /\ res'.status = 200)
             => \A i \in DOMAIN skills :
                   (\E n \in SkillCaseInputs :
                       /\ toLowerCase(skills[i]) = toLowerCase(n)
                       /\ AddToWant(1, n, res'.addedSkills[1].urgency_level))
                   => /\ skills' = skills
                      /\ res'.addedSkills[1].id = i]_vars

\* C23: the list that getNotifications returns to a user holds only rows of
\* the notifications table addressed to that user, each at most once, in
\* descending order of created_at, and only unread rows when unreadOnly is set.
C23_ListIsOwnNewestFirst ==
    [][(res'.op = "getNotifications" /\ res' # res)
       => LET list == res'.notifications
          IN /\ \A k \in DOMAIN list :
                   /\ list[k].user_id = res'.caller
                   /\ list[k] \in Range(notifications)
                   /\ res'.query.unreadOnly => ~list[k].is_read
             /\ \A k, m \in DOMAIN list :
                   /\ k < m => list[k].created_at >= list[m].created_at
                   /\ list[k].id = list[m].id => k = m]_vars

\* A user who has an older, read notification and a newer, unread one, and a
\* notification sent to the other user exists: the full list is returned with
\* the newer notification first.
C23_Witness ==
    /\ res.op = "getNotifications"
    /\ ~res.query.unreadOnly
    /\ Len(res.notifications) = 2
    /\ res.notifications[1].created_at > res.notifications[2].created_at
    /\ res.notifications[2].is_read
    /\ ~res.notifications[1].is_read
    /\ \E i \in DOMAIN notifications : notifications[i].user_id \notin {0, res.caller}

\* C25: a markAsRead or a delete by user X, whatever notification id it names,
\* is answered with success, leaves every notification of another recipient as
\* it was, and changes or removes at most the notification of that id.
C25_OnlyOwnNotificationChanges ==
    [][(res'.op \in {"markAsRead", "deleteNotification"} /\ res' # res /\ res'.id >= 1)
       => /\ res'.status = 200
          /\ DOMAIN notifications' = DOMAIN notifications
          /\ \A i \in DOMAIN notifications :
                (notifications[i].user_id # res'.caller \/ notifications[i].id # res'.id)
                => notifications'[i] = notifications[i]]_vars

\* A user has named a notification of the other user in a delete, which was
\* answered with success, and that notification is still there, unread.
C25_Witness ==
    /\ res.op = "deleteNotification"
    /\ res.status = 200
    /\ \E i \in DOMAIN notifications :
          /\ notifications[i].id = res.id
          /\ notifications[i].user_id \notin {0, res.caller}
          /\ ~notifications[i].is_read
    /\ \E i \in DOMAIN notifications : notifications[i].type = "deleted"

\* C30: the unread count reported to a user is the number of unread
\* notifications addressed to that user; after markAllAsRead by a user that
\* number is 0 and no other user's notification has changed; and a markAsRead
\* of a notification that is already read leaves every user's number as it was.
C30_UnreadCount ==
    [][/\ (res'.op \in {"getUnreadCount", "getNotifications"} /\ res' # res)
          => res'.unreadCount
                = Cardinality({i \in DOMAIN notifications :
                                  notifications[i].user_id = res'.caller
                                  /\ ~notifications[i].is_read})
       /\ (res'.op = "markAllAsRead" /\ res' # res)
          => /\ Notification_getUnreadCount(notifications', res'.caller) = 0
             /\ DOMAIN notifications' = DOMAIN notifications
             /\ \A i \in DOMAIN notifications :
                   notifications[i].user_id # res'.caller
                   => notifications'[i] = notifications[i]
       /\ (/\ res'.op = "markAsRead" /\ res' # res
           /\ \E i \in DOMAIN notifications :
                 /\ notifications[i].id = res'.id
                 /\ notifications[i].user_id = res'.caller
                 /\ notifications[i].is_read)
          => \A u \in UserIds :
                Notification_getUnreadCount(notifications', u)
                   = Notification_getUnreadCount(notifications, u)]_vars

\* A user has marked all notifications as read while the other user keeps an
\* unread one.
C30_Witness ==
    /\ res.op = "markAllAsRead"
    /\ \E i \in DOMAIN notifications :
          notifications[i].user_id = res.caller /\ notifications[i].read_at # <<>>
    /\ \E u \in UserIds : Notification_getUnreadCount(notifications, u) = 1

\* C24: the detailed analysis of R about U agrees with the candidate query:
\* isValidMatch is true iff both of its overlap arrays are non-empty, iff U is
\* a candidate of GET /api/matches for R; and for a candidate the two overlap
\* arrays name the same skills as the two arrays of the candidate's entry.
C24_DetailedAgreesWithCandidates ==
    [][(res'.op = "getDetailedMatch" /\ res' # res /\ res'.status = 200)
       => /\ res'.isValidMatch <=> (/\ res'.skillsYouCanTeachThem # <<>>
                                    /\ res'.skillsTheyCanTeachYou # <<>>)
          /\ \A list \in ListsFor(res'.user) :
                /\ res'.isValidMatch <=> res'.target \in IdsOf(list)
                /\ res'.target \in IdsOf(list)
                   => \A e \in {EntryIn(list, res'.target)} :
                         /\ Range(skillNames(res'.skillsYouCanTeachThem))
                               = Range(e.skillsYouCanTeachThem)
                         /\ Range(skillNames(res'.skillsTheyCanTeachYou))
                               = Range(e.skillsTheyCanTeachYou)]_vars

\* C26: a user and a skill have at most one row in user_skills_have and at
\* most one in user_skills_want; and an addition of a skill the user already
\* holds in that list leaves the row where it is with the new proficiency or
\* urgency, and every other row as it was.
C26_OneRowPerUserSkill ==
    /\ [](/\ \A r1, r2 \in user_skills_have :
                (r1.user_id = r2.user_id /\ r1.skill_id = r2.skill_id) => r1 = r2
          /\ \A r1, r2 \in user_skills_want :
                (r1.user_id = r2.user_id /\ r1.skill_id = r2.skill_id) => r1 = r2)
    /\ [][/\ (res'.op = "addToHave" /\ res'.status = 200)
             => \A r \in user_skills_have :
                   (r.user_id = res'.caller /\ r.skill_id = res'.addedSkills[1].id)
                   => user_skills_have'
                         = (user_skills_have \ {r})
                              \cup {[r EXCEPT !.proficiency_level
                                                 = res'.addedSkills[1].proficiency_level]}
          /\ (res'.op = "addToWant" /\ res'.status = 200)
             => \A r \in user_skills_want :
                   (r.user_id = res'.caller /\ r.skill_id = res'.addedSkills[1].id)
                   => user_skills_want'
                         = (user_skills_want \ {r})
                              \cup {[r EXCEPT !.urgency_level
                                                 = res'.addedSkills[1].urgency_level]}]_vars

\* The user holds two skills at different proficiency levels, wants one of
\* them, and the last addition to the have list succeeded.
C26_Witness ==
    /\ res.op = "addToHave"
    /\ res.status = 200
    /\ \E r1, r2 \in user_skills_have :
          /\ r1.user_id = r2.user_id
          /\ r1.skill_id # r2.skill_id
          /\ r1.proficiency_level # r2.proficiency_level
    /\ \E r \in user_skills_want : r.urgency_level = "high"

\* C27: a connection_accepted notification from X to Y exists only if a
\* connection between X and Y has status accepted, and a connection_declined
\* notification from X to Y only if a connection between them has status
\* declined.
C27_DecisionNotificationsHaveConnection ==
    \A i \in DOMAIN notifications :
       /\ notifications[i].type = "connection_accepted"
          => \E r \in pairRows(matches, notifications[i].from_user_id,
                               notifications[i].user_id) : r.status = "accepted"
       /\ notifications[i].type = "connection_declined"
          => \E r \in pairRows(matches, notifications[i].from_user_id,
                               notifications[i].user_id) : r.status = "declined"

\* A connection has been accepted and its notification exists, and the pair
\* has been proposed again in the other direction, which is pending.
C27_Witness ==
    /\ \E i \in DOMAIN notifications : notifications[i].type = "connection_accepted"
    /\ \E r \in matches : r.status = "pending"
    /\ \E r \in matches : r.status = "accepted"

\* C28: when two accepts of the same pending pair are the two requests that
\* run, in whatever interleaving, then once both have answered exactly one of
\* them answered 200 and the other 404, and at most one connection_accepted
\* notification and one pair of emails have been produced.
C28_OneAcceptWins ==
    \A i \in DOMAIN requests, j \in DOMAIN requests :
       (/\ Len(requests) = 2 /\ i # j
        /\ requests[i].op = "acceptMatch" /\ requests[j].op = "acceptMatch"
        /\ requests[i].caller # requests[i].target
        /\ requests[j].caller # requests[j].target
        /\ requests[i].pc = "done" /\ requests[j].pc = "done")
       => /\ {requests[i].status, requests[j].status} = {200, 404}
          /\ \A r \in matches : r.status = "accepted"
          /\ Cardinality(OfType("connection_accepted")) <= 1
          /\ Len(emails) <= 2

\* Both users have accepted at once: the accept issued second ran its UPDATE
\* first and answered 200 with its notification and mails, the other 404.
C28_Witness ==
    /\ Len(requests) = 2
    /\ requests[1].op = "acceptMatch" /\ requests[1].status = 404
    /\ requests[2].op = "acceptMatch" /\ requests[2].status = 200
    /\ requests[1].caller # requests[2].caller
    /\ Cardinality(OfType("connection_accepted")) = 1
    /\ Len(emails) = 2

\* C29: when two additions name the same skill, not yet stored, in whatever
\* case, then under every interleaving of their SELECT and INSERT steps, once
\* both have answered, the skills table holds exactly one row of that name and
\* both requests have attached their user to the id of that row.
C29_ConcurrentFindOrCreate ==
    \A i \in DOMAIN requests, j \in DOMAIN requests :
       (/\ Len(requests) = 2 /\ i # j
        /\ requests[i].op \in {"addToHave", "addToWant"}
        /\ requests[j].op \in {"addToHave", "addToWant"}
        /\ CollEq(requests[i].name, requests[j].name)
        /\ requests[i].pc = "done" /\ requests[j].pc = "done")
       => LET stored == {k \in DOMAIN skills : CollEq(skills[k], requests[i].name)}
              attached(r) ==
                 \E k \in stored :
                    /\ r.status = 200
                    /\ r.skill = k
                    /\ \E x \in (IF r.op = "addToHave" THEN user_skills_have
                                 ELSE user_skills_want) :
                          x.user_id = r.caller /\ x.skill_id = k
          IN /\ Cardinality(stored) = 1
             /\ attached(requests[i])
             /\ attached(requests[j])

====
